---- MODULE Spec2Model ----
(***************************************************************************)
(* A model of the service-bus client library: the SAS credential cache     *)
(* (generate_sas, refresh_sas) shared by concurrent callers of one client, *)
(* and the request assembly of QueueClient and SubscriptionClient (send,   *)
(* receive, receive-and-delete, complete, abandon, renew).                 *)
(*                                                                         *)
(* Strings are sequences of one-character strings, so that formatting,     *)
(* splitting, trimming, percent-encoding and URI parsing are computed.     *)
(***************************************************************************)
EXTENDS Integers, Sequences, FiniteSets, TLC

\* ------------------------------------------------------------------ bounds

\* The wall clock (seconds since the epoch) at construction of the client.
StartTime == 1000

\* The wall clock never advances further than this many seconds past StartTime.
MaxElapsed == 400

\* The number of threads that share the one client.
NumCallers == 2

\* The width in bits of usize, and of the seconds a SystemTime counts: the
\* machine's 64 narrowed, so that the ends of both ranges are within reach.
UsizeBits == 16

\* --------------------------------------------------------------- constants

\* const SAS_BUFFER_TIME: usize = 15
SAS_BUFFER_TIME == 15

\* Duration::from_secs(60 * 6), the validity window of every token.
SAS_DURATION == 360

\* Duration::from_secs(30), the timeout of send / receive / receive_and_delete.
DEFAULT_TIMEOUT == 30

\* Option<T>: None is the empty sequence, Some(x) the one-element sequence.
None == <<>>

Some(x) == <<x>>

IsSome(o) == o # <<>>

Unwrap(o) == o[1]

\* ------------------------------------------------------ machine arithmetic

\* usize::MAX + 1
UsizeModulus == 2 ^ UsizeBits

\* The latest second a SystemTime holds; `SystemTime + Duration` panics
\* ("overflow when adding duration to instant") past it.
TimeMax == 2 ^ (UsizeBits - 1) - 1

\* Duration::MAX, in whole seconds.
DurationMax == UsizeModulus - 1

\* `a - b` on usize overflows: a panic where overflow checks are compiled in
\* (a debug build), a wrapped value where they are not (a release build).
sub_overflows(a, b) == a < b

\* The value of `a - b` on usize where overflow checks are not compiled in.
wrapping_sub(a, b) == (a - b) % UsizeModulus


\* ----------------------------------------------------------------- strings

S_Endpoint == <<"E","n","d","p","o","i","n","t">>

S_SharedAccessKeyName ==
  <<"S","h","a","r","e","d","A","c","c","e","s","s","K","e","y","N","a","m","e">>

S_SharedAccessKey ==
  <<"S","h","a","r","e","d","A","c","c","e","s","s","K","e","y">>

S_sb == <<"s","b",":","/","/">>

S_https_prefix == <<"h","t","t","p","s",":","/","/">>

S_https == <<"h","t","t","p","s">>

S_messages == <<"/","m","e","s","s","a","g","e","s">>

S_head == <<"/","h","e","a","d">>

S_subscriptions == <<"/","s","u","b","s","c","r","i","p","t","i","o","n","s","/">>

S_timeout == <<"?","t","i","m","e","o","u","t","=">>

S_orders == <<"o","r","d","e","r","s">>

S_abc == <<"a","b","c">>

S_m1 == <<"m","1">>

\* str::trim removes these from both ends.
Whitespace == {" ", "\t", "\n", "\r"}

\* The decimal digits, in order.
Digits == <<"0","1","2","3","4","5","6","7","8","9">>

\* u64::to_string / i64::to_string of a non-negative number: its decimal digits.
RECURSIVE to_string(_)
to_string(n) ==
  IF n < 10 THEN <<Digits[n + 1]>>
  ELSE to_string(n \div 10) \o <<Digits[(n % 10) + 1]>>

\* s starts with p.
StartsWith(s, p) == Len(s) >= Len(p) /\ SubSeq(s, 1, Len(p)) = p

\* s[i..] for a 0-based byte offset i.
From(s, i) == SubSeq(s, i + 1, Len(s))

\* s[..i] for a 0-based byte offset i.
Upto(s, i) == SubSeq(s, 1, i)

\* str::find: the 0-based offset of the first occurrence of p in s, or None.
find(s, p) ==
  LET hits == {i \in 0..(Len(s) - Len(p)) : StartsWith(From(s, i), p)}
  IN IF hits = {} THEN None
     ELSE Some(CHOOSE i \in hits : \A j \in hits : i <= j)

\* Option::unwrap_or
unwrap_or(o, d) == IF IsSome(o) THEN Unwrap(o) ELSE d

\* str::split_at: the two halves of s around the 0-based offset i.
split_at(s, i) == <<Upto(s, i), From(s, i)>>

\* str::trim
RECURSIVE trim_start(_)
trim_start(s) ==
  IF s # <<>> /\ Head(s) \in Whitespace THEN trim_start(Tail(s)) ELSE s

RECURSIVE trim_end(_)
trim_end(s) ==
  IF s # <<>> /\ s[Len(s)] \in Whitespace THEN trim_end(Upto(s, Len(s) - 1)) ELSE s

trim(s) == trim_end(trim_start(s))

\* str::split(";"): the segments of s between the separators, empty ones kept.
RECURSIVE split(_, _)
split(s, sep) ==
  LET at == find(s, sep)
  IN IF IsSome(at)
     THEN <<Upto(s, Unwrap(at))>> \o split(From(s, Unwrap(at) + Len(sep)), sep)
     ELSE <<s>>

\* str::replace: every non-overlapping occurrence of p in s replaced by r.
RECURSIVE replace(_, _, _)
replace(s, p, r) ==
  LET at == find(s, p)
  IN IF IsSome(at)
     THEN Upto(s, Unwrap(at)) \o r \o replace(From(s, Unwrap(at) + Len(p)), p, r)
     ELSE s

\* --------------------------------------------------- connection strings

\* One `Key=Value` segment of a connection string, as the loop body of
\* generate_sas and of both constructors reads it: split at the first "=" (at
\* offset 0 when there is none), both halves trimmed, and the first character
\* of a non-empty value cut off.
parse_param(param) ==
  LET idx   == unwrap_or(find(param, <<"=">>), 0)
      halves == split_at(param, idx)
      k     == trim(halves[1])
      value == trim(halves[2])
  IN [k |-> k, value |-> IF Len(value) > 0 THEN From(value, 1) ELSE value]

\* The value a `match k { key => field = value, _ => {} }` loop leaves in a
\* field that starts as `default`: that of the last segment whose key is `key`.
RECURSIVE last_value(_, _, _)
last_value(params, key, default) ==
  IF params = <<>> THEN default
  ELSE LET kv == parse_param(Head(params))
       IN last_value(Tail(params), key, IF kv.k = key THEN kv.value ELSE default)

conn_field(connection_string, key, default) ==
  last_value(split(connection_string, <<";">>), key, default)

\* -------------------------------------------------------- percent-encoding

\* percent_encoding::CONTROLS, restricted to the characters strings here hold.
CONTROLS == {"\t", "\n", "\r"}

\* USERINFO_ENCODE_SET (the backtick, which no string here holds, left out)
USERINFO_ENCODE_SET ==
  CONTROLS \cup {" ", "\"", "#", "<", ">", "?", "{", "}", "/", ":", ";",
                 "=", "@", "\\", "[", "]", "^", "|"}

\* The two hexadecimal digits of a character's byte.
HexOf(c) ==
  CASE c = "\t" -> <<"0","9">> [] c = "\n" -> <<"0","A">> [] c = "\r" -> <<"0","D">>
    [] c = " "  -> <<"2","0">> [] c = "\"" -> <<"2","2">> [] c = "#"  -> <<"2","3">>
    [] c = "<"  -> <<"3","C">> [] c = ">"  -> <<"3","E">>
    [] c = "?"  -> <<"3","F">> [] c = "{"  -> <<"7","B">> [] c = "}"  -> <<"7","D">>
    [] c = "/"  -> <<"2","F">> [] c = ":"  -> <<"3","A">> [] c = ";"  -> <<"3","B">>
    [] c = "="  -> <<"3","D">> [] c = "@"  -> <<"4","0">> [] c = "\\" -> <<"5","C">>
    [] c = "["  -> <<"5","B">> [] c = "]"  -> <<"5","D">> [] c = "^"  -> <<"5","E">>
    [] c = "|"  -> <<"7","C">> [] c = "+"  -> <<"2","B">>
    [] OTHER    -> <<"?","?">>

\* utf8_percent_encode(s, set).collect::<String>()
RECURSIVE utf8_percent_encode(_, _)
utf8_percent_encode(s, set) ==
  IF s = <<>> THEN <<>>
  ELSE (IF Head(s) \in set THEN <<"%">> \o HexOf(Head(s)) ELSE <<Head(s)>>)
       \o utf8_percent_encode(Tail(s), set)

\* ------------------------------------------------------------ generate_sas

\* The token `SharedAccessSignature sig={sig}&se={expiry}&skn={name}&sr={url}`,
\* held by its four fields. sig stands for the percent-encoded base64 of the
\* HMAC-SHA256 of `message` under `key`: a value that is equal exactly when
\* key and message are.
sas_token(key, message, expiry, name, encoded_url) ==
  [sig |-> [key |-> key, message |-> message],
   se  |-> to_string(expiry),
   skn |-> name,
   sr  |-> encoded_url]

\* (SystemTime::now() + duration).duration_since(UNIX_EPOCH)
\*    .unwrap_or(Duration::from_secs(0)).as_secs()
expiry_of(clock, duration) ==
  IF clock + duration < 0 THEN 0 ELSE clock + duration

\* generate_sas(connection_string, duration) called when the wall clock reads
\* `clock`: the pair (sas, expiry).
generate_sas(connection_string, duration, clock) ==
  LET key         == conn_field(connection_string, S_SharedAccessKey, <<>>)
      endpoint    == conn_field(connection_string, S_Endpoint, <<>>)
      name        == conn_field(connection_string, S_SharedAccessKeyName, <<>>)
      encoded_url == utf8_percent_encode(endpoint, USERINFO_ENCODE_SET)
      expiry      == expiry_of(clock, duration)
      message     == encoded_url \o <<"\n">> \o to_string(expiry)
  IN <<sas_token(key, message, expiry, name, encoded_url), expiry>>

\* The number a decimal digit string reads as.
RECURSIVE parse_decimal(_)
parse_decimal(ds) ==
  IF ds = <<>> THEN 0
  ELSE 10 * parse_decimal(Upto(ds, Len(ds) - 1))
       + ((CHOOSE i \in 1..10 : Digits[i] = ds[Len(ds)]) - 1)

\* The expiry a token's `se` field encodes.
se_of(token) == parse_decimal(token.se)

\* HeaderValue::from_str(&sas).is_ok(): every byte is visible ASCII or a tab.
\* The literal parts of the token, its encoded signature and its digits always
\* are; the key name enters the token as written in the connection string.
is_visible_ascii(c) == c = "\t" \/ c \notin CONTROLS

header_value_ok(token) ==
  /\ \A i \in 1..Len(token.skn) : is_visible_ascii(token.skn[i])
  /\ \A i \in 1..Len(token.sr) : is_visible_ascii(token.sr[i])

\* --------------------------------------------------------------------- Uri

\* Bytes http::uri::PathAndQuery refuses in the path: those that are neither in
\* 0x21, 0x24..=0x3B, 0x3D, 0x40..=0x5F, 0x61..=0x7A, 0x7C, 0x7E nor one of
\* the quote and the braces (and neither "?" nor "#", which end the path).
InvalidPathChars == CONTROLS \cup {" ", "<", ">"}

\* Bytes it refuses in the query: those outside 0x21, 0x24..=0x3B, 0x3D,
\* 0x3F..=0x7E (and not "#", which ends the query).
InvalidQueryChars == CONTROLS \cup {" ", "\"", "<", ">"}

\* str::parse::<PathAndQuery>(): the text up to the first "#", its query
\* starting after the first "?"; None (an error) when a byte before the "#"
\* is refused. No leading slash is required.
parse_path_and_query(s) ==
  LET frag  == find(s, <<"#">>)
      data  == IF IsSome(frag) THEN Upto(s, Unwrap(frag)) ELSE s
      query == find(data, <<"?">>)
      plen  == unwrap_or(query, Len(data))
  IN IF /\ \A i \in 1..plen : data[i] \notin InvalidPathChars
        /\ \A i \in (plen + 2)..Len(data) : data[i] \notin InvalidQueryChars
     THEN Some([data |-> data, query |-> query])
     ELSE None

\* PathAndQuery::path
path(pq) ==
  LET ret == Upto(pq.data, unwrap_or(pq.query, Len(pq.data)))
  IN IF ret = <<>> THEN <<"/">> ELSE ret

\* PathAndQuery::query
query(pq) ==
  IF IsSome(pq.query) THEN Some(From(pq.data, Unwrap(pq.query) + 1)) ELSE None

\* str::parse::<Uri>() of an absolute URI `scheme://authority[path[?query]]`,
\* the form every endpoint of a connection string here has; None otherwise.
parse_uri(s) ==
  LET sep == find(s, <<":","/","/">>)
  IN IF ~IsSome(sep) \/ Unwrap(sep) = 0 THEN None
     ELSE LET rest == From(s, Unwrap(sep) + 3)
              ends == {i \in 0..(Len(rest) - 1) : rest[i + 1] \in {"/", "?", "#"}}
              cut  == IF ends = {} THEN Len(rest)
                      ELSE CHOOSE i \in ends : \A j \in ends : i <= j
              pq   == parse_path_and_query(From(rest, cut))
          IN IF cut = 0 \/ ~IsSome(pq) THEN None
             ELSE Some([scheme         |-> Upto(s, Unwrap(sep)),
                        authority      |-> Upto(rest, cut),
                        path_and_query |-> Unwrap(pq)])

\* `parts = endpoint.clone().into_parts(); parts.path_and_query = Some(pq);
\* Uri::from_parts(parts)`: the endpoint's scheme and authority with the new
\* path and query. from_parts accepts every such triple.
with_path_and_query(endpoint, pq) ==
  [scheme |-> endpoint.scheme, authority |-> endpoint.authority,
   path_and_query |-> pq]

\* ------------------------------------------------------------------ clients

\* QueueClient::with_conn_and_queue at wall-clock time `clock`: Some of the
\* client and its initial sas_info, or None when it returns an error.
with_conn_and_queue(connection_string, queue, clock) ==
  LET endpoint == conn_field(connection_string, S_Endpoint, None)
      \* The field starts as None and a segment sets it to Some(value).
      found    == \E i \in 1..Len(split(connection_string, <<";">>)) :
                    parse_param(split(connection_string, <<";">>)[i]).k = S_Endpoint
      url      == parse_uri(replace(endpoint, S_sb, S_https_prefix))
      sas      == generate_sas(connection_string, SAS_DURATION, clock)
  IN IF ~found \/ ~IsSome(url) THEN None
     ELSE Some([client |-> [kind              |-> "queue",
                            connection_string |-> connection_string,
                            queue_name        |-> queue,
                            topic_name        |-> <<>>,
                            subscription_name |-> <<>>,
                            endpoint          |-> Unwrap(url)],
                sas_info |-> [token |-> sas[1],
                              expiresAt |-> wrapping_sub(sas[2], SAS_BUFFER_TIME)]])

\* SubscriptionClient::with_conn_topic_and_subscr at wall-clock time `clock`.
with_conn_topic_and_subscr(connection_string, topic, subscription, clock) ==
  LET endpoint == conn_field(connection_string, S_Endpoint, <<>>)
      https    == S_https
                    \o split_at(endpoint, unwrap_or(find(endpoint, <<":">>), 0))[2]
      url      == parse_uri(https)
      sas      == generate_sas(connection_string, SAS_DURATION, clock)
  IN IF ~IsSome(url) THEN None
     ELSE Some([client |-> [kind              |-> "subscription",
                            connection_string |-> connection_string,
                            queue_name        |-> <<>>,
                            topic_name        |-> topic,
                            subscription_name |-> subscription,
                            endpoint          |-> Unwrap(url)],
                sas_info |-> [token |-> sas[1],
                              expiresAt |-> wrapping_sub(sas[2], SAS_BUFFER_TIME)]])

\* ----------------------------------------------------------------- messages

\* A BrokeredMessage: its body and the three optional properties the clients
\* read (props.SequenceNumber, props.MessageId, props.LockToken).
BrokeredMessage(seq, id, lock) ==
  [body  |-> <<"h","i">>,
   props |-> [SequenceNumber |-> seq, MessageId |-> id, LockToken |-> lock]]

\* message.props_as_json(): the value of the BrokerProperties header of a send.
props_as_json(message) == [json |-> message.props]

\* The messages callers pass: built by a producer (no LockToken), received
\* under peek-lock (SequenceNumber and LockToken, with or without MessageId),
\* and messages whose MessageId holds a space or a "#".
Messages ==
  { BrokeredMessage(None, None, None),
    BrokeredMessage(None, Some(S_m1), None),
    BrokeredMessage(Some(42), None, None),
    BrokeredMessage(None, None, Some(S_abc)),
    BrokeredMessage(Some(42), None, Some(S_abc)),
    BrokeredMessage(Some(42), Some(S_m1), Some(S_abc)),
    BrokeredMessage(None, Some(S_m1), Some(S_abc)),
    BrokeredMessage(None, Some(<<"m"," ","1">>), Some(S_abc)),
    BrokeredMessage(None, Some(<<"m","#","1">>), Some(S_abc)) }

\* --------------------------------------------------------- request assembly

\* A variant that prefers MessageId over SequenceNumber.
id_and_lock_prefers_message_id(message) ==
  LET id == IF IsSome(message.props.MessageId)
            THEN message.props.MessageId
            ELSE IF IsSome(message.props.SequenceNumber)
                 THEN Some(to_string(Unwrap(message.props.SequenceNumber)))
                 ELSE None
  IN IF IsSome(id) /\ IsSome(message.props.LockToken)
     THEN Some([id |-> Unwrap(id), lock |-> Unwrap(message.props.LockToken)])
     ELSE None

\* The closure chain of get_message_update_path up to the pair (id, lock):
\* SequenceNumber.map(to_string).or(MessageId).and_then(|id| LockToken.map(..)).
id_and_lock(message) ==
  LET id == IF IsSome(message.props.SequenceNumber)
            THEN Some(to_string(Unwrap(message.props.SequenceNumber)))
            ELSE message.props.MessageId
  IN IF IsSome(id) /\ IsSome(message.props.LockToken)
     THEN Some([id |-> Unwrap(id), lock |-> Unwrap(message.props.LockToken)])
     ELSE None

\* QueueClient: format!("/{}/messages/{}/{}", self.queue(), id, lock)
queue_update_path(client, id, lock) ==
  <<"/">> \o client.queue_name \o S_messages \o <<"/">> \o id \o <<"/">> \o lock

\* SubscriptionClient:
\* format!("{}/subscriptions/{}/messages/{}/{}", topic, subscription, id, lock)
subscription_update_path(client, id, lock) ==
  client.topic_name \o S_subscriptions \o client.subscription_name
    \o S_messages \o <<"/">> \o id \o <<"/">> \o lock

\* get_message_update_path of either client: Some(uri), or None for
\* Err(AzureRequestError::LocalMessage).
get_message_update_path(client, message) ==
  LET pair == id_and_lock(message)
  IN IF ~IsSome(pair) THEN None
     ELSE LET text == IF client.kind = "queue"
                      THEN queue_update_path(client, Unwrap(pair).id, Unwrap(pair).lock)
                      ELSE subscription_update_path(client, Unwrap(pair).id,
                                                    Unwrap(pair).lock)
              pq   == parse_path_and_query(text)
          IN IF IsSome(pq)
             THEN Some(with_path_and_query(client.endpoint, Unwrap(pq)))
             ELSE None

\* The path and query of send_with_timeout:
\* format!("{}/messages?timeout={}", self.queue(), timeout.as_secs())
send_path(client, timeout) ==
  client.queue_name \o S_messages \o S_timeout \o to_string(timeout)

\* The path and query of receive_with_timeout and
\* receive_and_delete_with_timeout of either client.
receive_path(client, timeout) ==
  IF client.kind = "queue"
  THEN client.queue_name \o S_messages \o S_head \o S_timeout \o to_string(timeout)
  ELSE client.topic_name \o S_subscriptions \o client.subscription_name
         \o S_messages \o S_head \o S_timeout \o to_string(timeout)

\* A variant in which abandon_message is sent with POST.
method_of_abandon_post(op) ==
  CASE op = "send"               -> "POST"
    [] op = "receive"            -> "POST"
    [] op = "receive_and_delete" -> "DELETE"
    [] op = "complete_message"   -> "DELETE"
    [] op = "abandon_message"    -> "POST"
    [] op = "renew_message"      -> "POST"

\* The method of the hyper::Request builder each operation uses.
method_of(op) ==
  CASE op = "send"               -> "POST"
    [] op = "receive"            -> "POST"
    [] op = "receive_and_delete" -> "DELETE"
    [] op = "complete_message"   -> "DELETE"
    [] op = "abandon_message"    -> "PUT"
    [] op = "renew_message"      -> "POST"

\* The target of an operation: Some(uri), or None with the error it returns.
target_of(client, op, message, timeout) ==
  IF op \in {"complete_message", "abandon_message", "renew_message"}
  THEN [uri |-> get_message_update_path(client, message), err |-> "LocalMessage"]
  ELSE LET text == IF op = "send" THEN send_path(client, timeout)
                   ELSE receive_path(client, timeout)
           pq   == parse_path_and_query(text)
       IN [uri |-> IF IsSome(pq)
                   THEN Some(with_path_and_query(client.endpoint, Unwrap(pq)))
                   ELSE None,
           err |-> "InvalidUri"]

\* A request descriptor, and the filler of an outcome that holds none.
Request(method, uri, sas, content_type, broker_properties, body) ==
  [method |-> method, uri |-> uri, AUTHORIZATION |-> sas,
   CONTENT_TYPE |-> content_type, BROKER_PROPERTIES |-> broker_properties,
   body |-> body]

NoRequest == Request("", None, None, None, None, None)

\* What an operation returns once refresh_sas has returned `sas`:
\* Ok(request) or Err(error).
assemble(client, op, message, timeout, sas) ==
  LET target == target_of(client, op, message, timeout)
  IN IF ~IsSome(target.uri)
     THEN [kind |-> "Err", err |-> target.err, req |-> NoRequest]
     ELSE [kind |-> "Ok", err |-> "",
           req  |-> IF op = "send"
                    THEN Request(method_of(op), target.uri, Some(sas),
                                 Some("application/atom+xml;type=entry;charset=utf-8"),
                                 Some(props_as_json(message)), Some(message.body))
                    ELSE Request(method_of(op), target.uri, Some(sas),
                                 None, None, None)]

\* ------------------------------------------------------------------- state

VARIABLES
  now,        \* the wall clock, in seconds since the epoch
  client,     \* the one client the callers share; never assigned after Init
  sas_info,   \* the Mutex's contents: the pair (token, expiresAt)
  lock,       \* the Mutex: the caller holding its guard (0: none), and its poison flag
  pc,         \* each caller's position inside an operation
  curr_time,  \* each caller's local `curr_time` of refresh_sas
  arm,        \* the arm of `match self.sas_info.lock()` each lock holder took
  last,       \* the call that ended last: its inputs, its token, its outcome
  args,       \* the arguments of a call of a free function or of a constructor
  ret         \* what that call returned

vars == <<now, client, sas_info, lock, pc, curr_time, arm, last, args, ret>>

\* The threads that share the client.
Callers == 1..NumCallers

\* "Endpoint=sb://ns/;SharedAccessKeyName=k;SharedAccessKey=s"
ConnPlain ==
  S_Endpoint \o <<"=">> \o S_sb \o <<"n","s","/",";">>
    \o S_SharedAccessKeyName \o <<"=","k",";">>
    \o S_SharedAccessKey \o <<"=","s">>

\* The same with a line feed inside the key name: "...KeyName=k\nk;...".
ConnControlInName ==
  S_Endpoint \o <<"=">> \o S_sb \o <<"n","s","/",";">>
    \o S_SharedAccessKeyName \o <<"=","k","\n","k",";">>
    \o S_SharedAccessKey \o <<"=","s">>

ConnectionStrings == {ConnPlain, ConnControlInName}

\* The explicit timeouts of the _with_timeout variants; the plain variants
\* pass DEFAULT_TIMEOUT.
Timeouts == {5, DEFAULT_TIMEOUT}

\* The clients a caller can have constructed when the clock read `clock`.
Constructed(clock) ==
  LET made == {with_conn_and_queue(c, S_orders, clock) : c \in ConnectionStrings}
                \cup {with_conn_topic_and_subscr(c, <<"t">>, <<"s">>, clock) :
                        c \in {ConnPlain}}
  IN {Unwrap(m) : m \in {x \in made : IsSome(x)}}

\* The calls a caller can make: the operation and its arguments. A plain
\* variant is its _with_timeout variant at DEFAULT_TIMEOUT; the arguments an
\* operation does not take are held at a fixed filler.
Calls(c) ==
  {[op |-> op, message |-> m, timeout |-> 0] :
     op \in {"complete_message", "abandon_message", "renew_message"},
     m \in Messages}
  \cup {[op |-> op, message |-> BrokeredMessage(None, None, None), timeout |-> d] :
          op \in {"receive", "receive_and_delete"}, d \in Timeouts}
  \cup {[op |-> "send", message |-> m, timeout |-> d] :
          m \in IF c.kind = "queue" THEN Messages ELSE {}, d \in Timeouts}

\* The value of `last` before any call has ended.
NoCall ==
  [op |-> "", message |-> BrokeredMessage(None, None, None), timeout |-> 0,
   regenerated |-> FALSE, sas |-> None,
   outcome |-> [kind |-> "", err |-> "", req |-> NoRequest]]

\* No free function or constructor is being called.
NoArgs == [fn |-> ""]

\* No call has returned.
NoRet == [kind |-> ""]

Init ==
  /\ args = NoArgs
  /\ ret = NoRet
  /\ now = StartTime
  /\ \E c \in Constructed(StartTime) :
       /\ client = c.client
       /\ sas_info = c.sas_info
       /\ last = NoCall
  /\ lock = [holder |-> 0, poisoned |-> FALSE]
  /\ pc = [t \in Callers |-> "idle"]
  /\ curr_time = [t \in Callers |-> 0]
  /\ arm = [t \in Callers |-> ""]

\* ----------------------------------------------------------------- actions

\* The wall clock advances. Of all later instants, those at which the cache's
\* answer changes are drawn: the cached expiresAt and the second after it.
Tick ==
  /\ \E t \in {sas_info.expiresAt, sas_info.expiresAt + 1} :
       /\ t > now
       /\ t <= StartTime + MaxElapsed
       /\ now' = t
  /\ UNCHANGED <<client, sas_info, lock, pc, curr_time, arm, last, args, ret>>

\* A caller enters an operation; each starts with `self.refresh_sas()`, whose
\* first statement reads the clock into curr_time, before the lock is taken.
Enter(t) ==
  /\ pc[t] = "idle"
  /\ pc' = [pc EXCEPT ![t] = "sampled"]
  /\ curr_time' = [curr_time EXCEPT ![t] = now]
  /\ UNCHANGED <<now, client, sas_info, lock, arm, last, args, ret>>

\* The arm of `match self.sas_info.lock()` taken for a given poison flag; both
\* arms yield the guard (Err(poison) => poison.into_inner()).
lock_arm(poisoned) == IF poisoned THEN "Err" ELSE "Ok"

\* self.sas_info.lock(): blocks while another caller holds the guard.
Lock(t) ==
  /\ pc[t] = "sampled"
  /\ lock.holder = 0
  /\ arm' = [arm EXCEPT ![t] = lock_arm(lock.poisoned)]
  /\ lock' = [lock EXCEPT !.holder = t]
  /\ pc' = [pc EXCEPT ![t] = "locked"]
  /\ UNCHANGED <<now, client, sas_info, curr_time, last, args, ret>>

\* A variant that already regenerates at the cached expiresAt (>= for >).
refresh_sas_at_expiry(sas_tuple, curr, connection_string, clock) ==
  IF curr >= sas_tuple.expiresAt
  THEN LET generated == generate_sas(connection_string, SAS_DURATION, clock)
       IN [token |-> generated[1], expiresAt |-> generated[2]]
  ELSE sas_tuple

\* A variant that stores the new expiry but keeps the old token.
refresh_sas_keeps_token(sas_tuple, curr, connection_string, clock) ==
  IF curr > sas_tuple.expiresAt
  THEN LET generated == generate_sas(connection_string, SAS_DURATION, clock)
       IN [token |-> sas_tuple.token, expiresAt |-> generated[2]]
  ELSE sas_tuple

\* A variant without the staleness check: every call regenerates.
refresh_sas_always(sas_tuple, curr, connection_string, clock) ==
  LET generated == generate_sas(connection_string, SAS_DURATION, clock)
  IN [token |-> generated[1], expiresAt |-> generated[2]]

\* The body of refresh_sas under the guard: the pair the Mutex holds after
\* `if curr_time > sas_tuple.1 { ... sas_tuple.1 = expiry; sas_tuple.0 = key; }`
\* when generate_sas reads the clock at `clock`.
refresh_sas(sas_tuple, curr, connection_string, clock) ==
  IF curr > sas_tuple.expiresAt
  THEN LET generated == generate_sas(connection_string, SAS_DURATION, clock)
       IN [token |-> generated[1], expiresAt |-> generated[2]]
  ELSE sas_tuple

\* A variant of the operations in which complete, abandon and renew validate
\* the address first and return LocalMessage before the credential step.
Finish_validates_first(t) ==
  /\ pc[t] = "locked"
  /\ lock.holder = t
  /\ \E call \in Calls(client) :
       IF /\ call.op \in {"complete_message", "abandon_message", "renew_message"}
          /\ ~IsSome(get_message_update_path(client, call.message))
       THEN /\ sas_info' = sas_info
            /\ lock' = [lock EXCEPT !.holder = 0]
            /\ pc' = [pc EXCEPT ![t] = "idle"]
            /\ last' = [op |-> call.op, message |-> call.message,
                        timeout |-> call.timeout, regenerated |-> FALSE,
                        sas |-> None,
                        outcome |-> [kind |-> "Err", err |-> "LocalMessage",
                                     req |-> NoRequest]]
       ELSE \E tuple \in {refresh_sas(sas_info, curr_time[t],
                                      client.connection_string, now)} :
              /\ sas_info' = tuple
              /\ IF header_value_ok(tuple.token)
                 THEN /\ lock' = [lock EXCEPT !.holder = 0]
                      /\ pc' = [pc EXCEPT ![t] = "idle"]
                      /\ last' = [op |-> call.op, message |-> call.message,
                                  timeout |-> call.timeout,
                                  regenerated |-> tuple # sas_info,
                                  sas |-> Some(tuple.token),
                                  outcome |-> assemble(client, call.op, call.message,
                                                       call.timeout, tuple.token)]
                 ELSE /\ lock' = [holder |-> 0, poisoned |-> TRUE]
                      /\ pc' = [pc EXCEPT ![t] = "panicked"]
                      /\ last' = [NoCall EXCEPT
                                    !.regenerated = tuple # sas_info,
                                    !.outcome = [kind |-> "Panic", err |-> "",
                                                 req |-> NoRequest]]
  /\ curr_time' = [curr_time EXCEPT ![t] = 0]
  /\ arm' = [arm EXCEPT ![t] = IF pc'[t] = "panicked" THEN arm[t] ELSE ""]
  /\ UNCHANGED <<now, client, args, ret>>

\* The rest of the operation, from the check under the guard to its return.
\* `HeaderValue::from_str(&sas_tuple.0).unwrap()` panics on a token that is
\* no header value: the guard is dropped by the unwinding, which poisons the
\* Mutex. Otherwise the guard is dropped on return and the request is
\* assembled. A panicked caller is gone: its pc and arm stay where the panic
\* left them. Which operation the caller is in, and its arguments, are read
\* only in this step, so they are drawn here.
Finish(t) ==
  /\ pc[t] = "locked"
  /\ lock.holder = t
  /\ \E tuple \in {refresh_sas(sas_info, curr_time[t], client.connection_string, now)} :
       /\ sas_info' = tuple
       /\ IF header_value_ok(tuple.token)
          THEN /\ lock' = [lock EXCEPT !.holder = 0]
               /\ pc' = [pc EXCEPT ![t] = "idle"]
               /\ \E call \in Calls(client) :
                    last' = [op |-> call.op, message |-> call.message,
                             timeout |-> call.timeout,
                             regenerated |-> tuple # sas_info,
                             sas |-> Some(tuple.token),
                             outcome |-> assemble(client, call.op, call.message,
                                                  call.timeout, tuple.token)]
          ELSE /\ lock' = [holder |-> 0, poisoned |-> TRUE]
               /\ pc' = [pc EXCEPT ![t] = "panicked"]
               /\ last' = [NoCall EXCEPT
                             !.regenerated = tuple # sas_info,
                             !.outcome = [kind |-> "Panic", err |-> "",
                                          req |-> NoRequest]]
  /\ curr_time' = [curr_time EXCEPT ![t] = 0]
  /\ arm' = [arm EXCEPT ![t] = IF pc'[t] = "panicked" THEN arm[t] ELSE ""]
  /\ UNCHANGED <<now, client, args, ret>>

Next ==
  \/ Tick
  \/ \E t \in Callers : Enter(t)
  \/ \E t \in Callers : Lock(t)
  \/ \E t \in Callers : Finish(t)

Spec == Init /\ [][Next]_vars

\* ------------------------------------------------------- interpret_results

\* The values of hyper::StatusCode (from_u16 admits 100..=999).
StatusCode == 100..999

\* Ok(())
Ok == [kind |-> "Ok", err |-> "", report |-> <<>>]

\* Err(e) of an AzureRequestError without a payload.
Err(e) == [kind |-> "Err", err |-> e, report |-> <<>>]

\* Err(UnknownError(eyre!("{:?}", e))): the report's text is the Debug form of
\* the status, its number.
UnknownError(status) ==
  [kind |-> "Err", err |-> "UnknownError", report |-> to_string(status)]

\* A variant that takes 404 Not Found for "resource not found".
interpret_results_not_found(status) ==
  CASE status = 401 -> Err("AuthorizationFailure")
    [] status = 500 -> Err("InternalError")
    [] status = 400 -> Err("BadRequest")
    [] status = 403 -> Err("ResourceFailure")
    [] status = 404 -> Err("ResourceNotFound")
    [] status = 201 -> Ok
    [] status = 200 -> Ok
    [] OTHER        -> UnknownError(status)

\* interpret_results: the arms of `match status`, in the order of the source.
interpret_results(status) ==
  CASE status = 401 -> Err("AuthorizationFailure")
    [] status = 500 -> Err("InternalError")
    [] status = 400 -> Err("BadRequest")
    [] status = 403 -> Err("ResourceFailure")
    [] status = 410 -> Err("ResourceNotFound")
    [] status = 201 -> Ok
    [] status = 200 -> Ok
    [] OTHER        -> UnknownError(status)

\* No client takes part in a call of a free function: the variables of the
\* client and of its callers rest at fixed values.
NoClient ==
  /\ now = StartTime
  /\ client = [kind |-> ""]
  /\ sas_info = [token |-> <<>>, expiresAt |-> 0]
  /\ lock = [holder |-> 0, poisoned |-> FALSE]
  /\ pc = [t \in Callers |-> "idle"]
  /\ curr_time = [t \in Callers |-> 0]
  /\ arm = [t \in Callers |-> ""]
  /\ last = NoCall

InitStatus ==
  /\ args \in {[fn |-> "interpret_results", status |-> c] : c \in StatusCode}
  /\ ret = NoRet
  /\ NoClient

\* interpret_results(status) is called and returns.
InterpretResults ==
  /\ args.fn = "interpret_results"
  /\ ret = NoRet
  /\ ret' = interpret_results(args.status)
  /\ UNCHANGED <<now, client, sas_info, lock, pc, curr_time, arm, last, args>>

NextStatus == InterpretResults

SpecStatus == InitStatus /\ [][NextStatus]_vars

\* ---------------------------------------- generate_sas and the constructors

\* The character e-acute: two bytes in UTF-8 (0xC3 0xA9), held as one element
\* of a string and written by its bytes.
EAcute == "C3A9"

\* char::len_utf8
len_utf8(c) == IF c = EAcute THEN 2 ELSE 1

\* `&value[1..]` panics ("byte index 1 is not a char boundary") when the first
\* character of value is longer than one byte.
slice_from_1_panics(value) == len_utf8(value[1]) > 1

\* The loop body over one segment panics: its trimmed second half is not
\* empty and cannot be sliced at byte 1.
param_panics(param) ==
  LET idx    == unwrap_or(find(param, <<"=">>), 0)
      value  == trim(split_at(param, idx)[2])
  IN Len(value) > 0 /\ slice_from_1_panics(value)

\* The parsing loop over connection_string panics at one of its segments.
conn_panics(connection_string) ==
  LET params == split(connection_string, <<";">>)
  IN \E i \in 1..Len(params) : param_panics(params[i])

\* A call that ended in a panic.
Panic == [kind |-> "Panic"]

\* A constructor returned Err(report).
ErrReport == [kind |-> "Err"]

\* A call of generate_sas(connection_string, duration) when the clock reads
\* `clock`: the parsing loop, then `SystemTime::now() + duration`, which
\* panics when the sum is past the last SystemTime, then the rest.
call_generate_sas(connection_string, duration, clock) ==
  IF conn_panics(connection_string) THEN Panic
  ELSE IF clock + duration > TimeMax THEN Panic
  ELSE LET sas == generate_sas(connection_string, duration, clock)
       IN [kind |-> "Ok", token |-> sas[1], expiry |-> sas[2]]

\* A call of a constructor when the clock reads `clock`, in a build with
\* (debug) or without (release) overflow checks: its own parsing loop, the
\* two `?` on the endpoint, generate_sas, and `expiry - SAS_BUFFER_TIME`.
call_constructor(made, connection_string, clock, build) ==
  IF conn_panics(connection_string) THEN Panic
  ELSE IF ~IsSome(made) THEN ErrReport
  ELSE IF clock + SAS_DURATION > TimeMax THEN Panic
  ELSE IF /\ sub_overflows(expiry_of(clock, SAS_DURATION), SAS_BUFFER_TIME)
          /\ build = "debug"
       THEN Panic
  ELSE [kind |-> "Ok", client |-> Unwrap(made).client,
        sas_info |-> Unwrap(made).sas_info]

\* "Endpoint=sb://ns/;SharedAccessKeyName=k;SharedAccessKey=s;junk": a
\* segment without "=".
ConnMalformed == ConnPlain \o <<";","j","u","n","k">>

\* "...;SharedAccessKey=s;Endpoint": a segment without "=" that spells a key.
ConnMalformedKey == ConnPlain \o <<";">> \o S_Endpoint

\* "...;SharedAccessKey=s;" followed by an e-acute: a segment without "="
\* that starts with a character of two bytes.
ConnMalformedNonAscii == ConnPlain \o <<";", EAcute>>

\* "Endpoint=sb://ns/;EntityPath=q;SharedAccessKeyName=k;SharedAccessKey=s=":
\* a key that is not recognized, and a value that holds a "=".
ConnOtherKey ==
  S_Endpoint \o <<"=">> \o S_sb \o <<"n","s","/",";">>
    \o <<"E","n","t","i","t","y","P","a","t","h","=","q",";">>
    \o S_SharedAccessKeyName \o <<"=","k",";">>
    \o S_SharedAccessKey \o <<"=","s","=">>

\* "Endpoint=sb://ns/": no key and no key name.
ConnIncomplete == S_Endpoint \o <<"=">> \o S_sb \o <<"n","s","/">>

\* "SharedAccessKeyName=k;SharedAccessKey=s": no endpoint.
ConnNoEndpoint ==
  S_SharedAccessKeyName \o <<"=","k",";">> \o S_SharedAccessKey \o <<"=","s">>

\* The connection strings generate_sas and the constructors are called with;
\* the empty one among them.
ConnInputs ==
  {ConnPlain, ConnControlInName, ConnMalformed, ConnMalformedKey,
   ConnMalformedNonAscii, ConnOtherKey, ConnIncomplete, ConnNoEndpoint, <<>>}

\* The readings of the wall clock: before the epoch (by more and by less than
\* SAS_DURATION), at it, after it, and near the last SystemTime.
Clocks == {-400, -350, -5, 0, StartTime, TimeMax - 100}

\* The durations generate_sas is called with.
Durations == {0, SAS_DURATION, DurationMax}

InitSas ==
  /\ args \in
       {[fn |-> "generate_sas", connection_string |-> c, duration |-> d,
         clock |-> k, build |-> "release"] :
          c \in ConnInputs, d \in Durations, k \in Clocks}
       \cup
       {[fn |-> f, connection_string |-> c, duration |-> SAS_DURATION,
         clock |-> k, build |-> b] :
          f \in {"with_conn_and_queue", "with_conn_topic_and_subscr"},
          c \in ConnInputs, k \in Clocks, b \in {"debug", "release"}}
  /\ ret = NoRet
  /\ NoClient

\* generate_sas(connection_string, duration) is called and returns or panics.
GenerateSas ==
  /\ args.fn = "generate_sas"
  /\ ret = NoRet
  /\ ret' = call_generate_sas(args.connection_string, args.duration, args.clock)
  /\ UNCHANGED <<now, client, sas_info, lock, pc, curr_time, arm, last, args>>

\* QueueClient::with_conn_and_queue(connection_string, "orders") is called.
WithConnAndQueue ==
  /\ args.fn = "with_conn_and_queue"
  /\ ret = NoRet
  /\ ret' = call_constructor(
               with_conn_and_queue(args.connection_string, S_orders, args.clock),
               args.connection_string, args.clock, args.build)
  /\ UNCHANGED <<now, client, sas_info, lock, pc, curr_time, arm, last, args>>

\* SubscriptionClient::with_conn_topic_and_subscr(connection_string, "t", "s")
\* is called.
WithConnTopicAndSubscr ==
  /\ args.fn = "with_conn_topic_and_subscr"
  /\ ret = NoRet
  /\ ret' = call_constructor(
               with_conn_topic_and_subscr(args.connection_string, <<"t">>, <<"s">>,
                                          args.clock),
               args.connection_string, args.clock, args.build)
  /\ UNCHANGED <<now, client, sas_info, lock, pc, curr_time, arm, last, args>>

NextSas ==
  \/ GenerateSas
  \/ WithConnAndQueue
  \/ WithConnTopicAndSubscr

SpecSas == InitSas /\ [][NextSas]_vars

\* ------------------------------------------------------------------ claims

\* A caller returns from refresh_sas (and from its operation) in this step.
Returns(t) == pc[t] = "locked" /\ pc'[t] = "idle"

LockOperations == {"complete_message", "abandon_message", "renew_message"}

\* The call that ended last was a complete, abandon or renew.
LastIsLockOperation == last.op \in LockOperations

\* C1: a token returned by refresh_sas is never one whose cached expiresAt
\* has already passed at the moment the call returns, whatever the
\* interleaving of the callers and however the clock advances between a
\* caller's reading of it and its acquiring the lock.
C1_NeverReturnsExpiredToken ==
  [][\A t \in Callers : Returns(t) => now <= sas_info'.expiresAt]_vars

\* C2: in every reachable state the cached expiresAt is the expiry `se` signed
\* into the cached token minus the 15-second buffer.
C2_ExpiresAtIsBufferAdjusted ==
  sas_info.expiresAt = se_of(sas_info.token) - SAS_BUFFER_TIME

\* C3: complete, abandon and renew return a request descriptor if and only if
\* the message carries a LockToken and a SequenceNumber or a MessageId; every
\* other message fails with LocalMessage and yields no descriptor.
C3_DescriptorIffLockAndId ==
  LastIsLockOperation =>
    LET addressable ==
          /\ IsSome(last.message.props.LockToken)
          /\ \/ IsSome(last.message.props.SequenceNumber)
             \/ IsSome(last.message.props.MessageId)
    IN IF addressable
       THEN last.outcome.kind = "Ok" /\ last.outcome.req # NoRequest
       ELSE /\ last.outcome.kind = "Err"
            /\ last.outcome.err = "LocalMessage"
            /\ last.outcome.req = NoRequest

\* The id a lock-scoped address is to carry: the decimal SequenceNumber when
\* there is one, the MessageId otherwise.
ExpectedId(message) ==
  IF IsSome(message.props.SequenceNumber)
  THEN to_string(Unwrap(message.props.SequenceNumber))
  ELSE Unwrap(message.props.MessageId)

\* The path of the request the last call returned.
LastPath == path(Unwrap(last.outcome.req.uri).path_and_query)

\* A queue client's complete, abandon or renew returned a descriptor.
QueueLockDescriptor ==
  client.kind = "queue" /\ LastIsLockOperation /\ last.outcome.kind = "Ok"

NoQueryOrFragment(s) == \A i \in 1..Len(s) : s[i] \notin {"?", "#"}

C5_SubscriptionLockPath ==
  (/\ client.kind = "subscription"
   /\ LastIsLockOperation
   /\ last.outcome.kind = "Ok"
   /\ NoQueryOrFragment(ExpectedId(last.message)))
  => LastPath =
       <<"/">> \o client.topic_name
         \o <<"/","s","u","b","s","c","r","i","p","t","i","o","n","s","/">>
         \o client.subscription_name \o <<"/","m","e","s","s","a","g","e","s","/">>
         \o ExpectedId(last.message) \o <<"/">>
         \o Unwrap(last.message.props.LockToken)

\* C6: a call of refresh_sas that returns while the wall clock has not passed
\* the cached expiresAt returns the cached token, regenerates nothing and
\* leaves the pair (token, expiresAt) as it was; so it returns the very token
\* the call before it returned from the same cache.
C6_Idempotent ==
  [][\A t \in Callers :
       (Returns(t) /\ now <= sas_info.expiresAt)
       => /\ sas_info' = sas_info
          /\ last'.sas = Some(sas_info.token)
          /\ ~last'.regenerated
          /\ (last.sas = Some(sas_info.token) => last'.sas = last.sas)]_vars

\* A token was generated by a refresh, and a later call, made before the clock
\* passed its expiresAt, has returned that same token without regenerating.
C6_Witness ==
  /\ last.outcome.kind = "Ok"
  /\ ~last.regenerated
  /\ last.sas = Some(sas_info.token)
  /\ se_of(sas_info.token) > StartTime + SAS_DURATION
  /\ now <= sas_info.expiresAt

\* C7: a call of refresh_sas that starts after the wall clock has passed the
\* cached expiresAt regenerates with the 6-minute window: the token it returns
\* encodes an `se` strictly greater than that of the token cached before, and
\* is the token now in the cache.
C7_RefreshCorrectness ==
  [][\A t \in Callers :
       (Returns(t) /\ curr_time[t] > sas_info.expiresAt)
       => /\ se_of(sas_info'.token) > se_of(sas_info.token)
          /\ se_of(sas_info'.token) = now + SAS_DURATION
          /\ last'.sas = Some(sas_info'.token)
          /\ last'.regenerated]_vars

\* A call has regenerated the token and returned the regenerated one.
C7_Witness ==
  /\ last.outcome.kind = "Ok"
  /\ last.regenerated
  /\ last.sas = Some(sas_info.token)
  /\ se_of(sas_info.token) > StartTime + SAS_DURATION

\* C8: once a caller has panicked while holding the lock, every later call
\* takes the guard through the poison-recovery arm and returns a token: none
\* of them fails.
C8_RecoveredCallersReturn ==
  \A t \in Callers : arm[t] = "Err" => pc[t] # "panicked"

\* C9: the whole sequence from reading the clock to storing the token and its
\* expiry runs under mutual exclusion: at most one caller is between its
\* reading of the clock and its return, and that caller holds the lock.
C9_WholeSequenceUnderLock ==
  /\ Cardinality({t \in Callers : pc[t] \in {"sampled", "locked"}}) <= 1
  /\ \A t \in Callers : pc[t] \in {"sampled", "locked"} => lock.holder = t

\* C10: every request descriptor returned has the method of the operation
\* table (send POST with the message body, receive POST without a body,
\* receive-and-delete DELETE, complete DELETE, abandon PUT, renew POST), on
\* either client, and its Authorization header is the token refresh_sas
\* returned to that call.
C10_MethodTable ==
  last.outcome.kind = "Ok" =>
    LET req == last.outcome.req
    IN /\ last.op = "send" => req.method = "POST" /\ req.body = Some(last.message.body)
       /\ last.op = "receive" => req.method = "POST" /\ req.body = None
       /\ last.op = "receive_and_delete" => req.method = "DELETE" /\ req.body = None
       /\ last.op = "complete_message" => req.method = "DELETE" /\ req.body = None
       /\ last.op = "abandon_message" => req.method = "PUT" /\ req.body = None
       /\ last.op = "renew_message" => req.method = "POST" /\ req.body = None
       /\ IsSome(last.sas)
       /\ req.AUTHORIZATION = last.sas

\* A subscription client has returned the descriptor of an abandon.
C10_Witness ==
  /\ client.kind = "subscription"
  /\ last.outcome.kind = "Ok"
  /\ last.op = "abandon_message"
  /\ last.outcome.req.method = "PUT"

\* C11: interpret_results is total and follows the table: 200 and 201 give
\* success, 400 BadRequest, 401 AuthorizationFailure, 403 ResourceFailure,
\* 410 ResourceNotFound, 500 InternalError, and every other code (599, 404
\* and 204 among them) gives UnknownError carrying that code.
C11_StatusTable ==
  /\ (args.fn = "interpret_results" /\ ret = NoRet) => ENABLED InterpretResults
  /\ (args.fn = "interpret_results" /\ ret # NoRet) =>
       LET c == args.status
       IN /\ c \in {200, 201} => ret.kind = "Ok"
          /\ c = 400 => ret.kind = "Err" /\ ret.err = "BadRequest"
          /\ c = 401 => ret.kind = "Err" /\ ret.err = "AuthorizationFailure"
          /\ c = 403 => ret.kind = "Err" /\ ret.err = "ResourceFailure"
          /\ c = 410 => ret.kind = "Err" /\ ret.err = "ResourceNotFound"
          /\ c = 500 => ret.kind = "Err" /\ ret.err = "InternalError"
          /\ c \notin {200, 201, 400, 401, 403, 410, 500} =>
               /\ ret.kind = "Err"
               /\ ret.err = "UnknownError"
               /\ parse_decimal(ret.report) = c

\* 404, a code outside the table, has been classified as UnknownError.
C11_Witness ==
  /\ args.fn = "interpret_results"
  /\ args.status = 404
  /\ ret.kind = "Err"
  /\ ret.err = "UnknownError"

\* The path and query of the request the last call returned.
LastPathAndQuery == Unwrap(last.outcome.req.uri).path_and_query

\* C12: a queue's send targets /{queue}/messages, its receive and
\* receive-and-delete /{queue}/messages/head, a subscription's receive
\* variants /{topic}/subscriptions/{subscription}/messages/head; each of
\* these paths begins with a slash and carries the query timeout={seconds} of
\* the caller's timeout (30 without an explicit one); the lock-scoped
\* addresses carry no timeout query.
C12_SendReceiveAddresses ==
  last.outcome.kind = "Ok" =>
    LET head == <<"/","h","e","a","d">>
        messages == <<"/","m","e","s","s","a","g","e","s">>
        timeout == <<"t","i","m","e","o","u","t","=">> \o to_string(last.timeout)
    IN /\ last.op = "send" =>
            /\ LastPath = <<"/">> \o client.queue_name \o messages
            /\ query(LastPathAndQuery) = Some(timeout)
       /\ (last.op \in {"receive", "receive_and_delete"} /\ client.kind = "queue") =>
            /\ LastPath = <<"/">> \o client.queue_name \o messages \o head
            /\ query(LastPathAndQuery) = Some(timeout)
       /\ (last.op \in {"receive", "receive_and_delete"}
             /\ client.kind = "subscription") =>
            /\ LastPath = <<"/">> \o client.topic_name
                             \o <<"/","s","u","b","s","c","r","i","p","t","i","o","n","s","/">>
                             \o client.subscription_name \o messages \o head
            /\ query(LastPathAndQuery) = Some(timeout)
       /\ LastIsLockOperation => query(LastPathAndQuery) = None

\* C13: generate_sas returns (token, expiry) where the token has the fields
\* sig, se, skn and sr, se is the returned expiry, the returned expiry is
\* now + duration with no buffer subtracted, skn is the key name, sr the
\* encoded endpoint, and the signature is computed over "{sr}\n{se}" for the
\* very sr and se of the token; it has no failing outcome, whatever the
\* connection string.
C13_TokenGrammar ==
  (args.fn = "generate_sas" /\ ret # NoRet) =>
    /\ ret.kind = "Ok"
    /\ ret.expiry = args.clock + args.duration
    /\ ret.token.se = to_string(ret.expiry)
    /\ ret.token.skn = conn_field(args.connection_string, S_SharedAccessKeyName, <<>>)
    /\ ret.token.sr = utf8_percent_encode(
                         conn_field(args.connection_string, S_Endpoint, <<>>),
                         USERINFO_ENCODE_SET)
    /\ ret.token.sig.key = conn_field(args.connection_string, S_SharedAccessKey, <<>>)
    /\ ret.token.sig.message = ret.token.sr \o <<"\n">> \o ret.token.se

\* A segment as the specification reads it: `Key=Value` split at its first
\* "="; without a "=", the whole segment as the key and an empty value.
claimed_pair(param) ==
  LET at == find(param, <<"=">>)
  IN IF IsSome(at)
     THEN [k |-> Upto(param, Unwrap(at)), value |-> From(param, Unwrap(at) + 1),
           well_formed |-> TRUE]
     ELSE [k |-> param, value |-> <<>>, well_formed |-> FALSE]

\* The value the specification gives a recognized field: that of the last
\* well-formed segment with that key; a malformed segment sets no field.
RECURSIVE claimed_value(_, _, _)
claimed_value(params, key, default) ==
  IF params = <<>> THEN default
  ELSE LET kv == claimed_pair(Head(params))
       IN claimed_value(Tail(params), key,
                        IF kv.well_formed /\ kv.k = key THEN kv.value ELSE default)

claimed_field(connection_string, key) ==
  claimed_value(split(connection_string, <<";">>), key, <<>>)

\* C14: the connection string is split on ";", a segment `Key=Value` at its
\* first "=", only Endpoint, SharedAccessKeyName and SharedAccessKey are
\* recognized, and a segment without "=" is tolerated and sets or alters no
\* recognized field: generate_sas and both constructors get through the
\* parsing, and the token carries the fields of the well-formed segments.
C14_ConnectionStringParsing ==
  /\ (/\ args.fn = "generate_sas"
      /\ ret # NoRet
      /\ args.clock + args.duration <= TimeMax) =>
       /\ ret.kind = "Ok"
       /\ ret.token.skn = claimed_field(args.connection_string, S_SharedAccessKeyName)
       /\ ret.token.sig.key = claimed_field(args.connection_string, S_SharedAccessKey)
       /\ ret.token.sr = utf8_percent_encode(
                            claimed_field(args.connection_string, S_Endpoint),
                            USERINFO_ENCODE_SET)
  /\ (/\ args.fn \in {"with_conn_and_queue", "with_conn_topic_and_subscr"}
      /\ ret # NoRet
      /\ args.clock + SAS_DURATION \in SAS_BUFFER_TIME..TimeMax) =>
       ret.kind # "Panic"

\* C15: the expiry arithmetic never wraps and never aborts: for every clock
\* and duration generate_sas returns now + duration, clamped at 0 and never
\* negative, and the expiresAt a constructor stores (expiry minus the
\* 15-second buffer, on usize) is neither negative nor wrapped, also when the
\* expiry is smaller than 15.
C15_ExpiryNeverWraps ==
  (ret # NoRet /\ ~conn_panics(args.connection_string)) =>
    /\ args.fn = "generate_sas" =>
         /\ ret.kind = "Ok"
         /\ ret.expiry >= 0
         /\ args.clock + args.duration >= 0 => ret.expiry = args.clock + args.duration
    /\ args.fn \in {"with_conn_and_queue", "with_conn_topic_and_subscr"} =>
         /\ ret.kind # "Panic"
         /\ ret.kind = "Ok" =>
              /\ ret.sas_info.expiresAt >= 0
              /\ ret.sas_info.expiresAt <= expiry_of(args.clock, SAS_DURATION)

\* C16: no step of any operation changes the client's endpoint, its queue,
\* topic and subscription names or its connection string; the cached pair
\* (token, expiresAt) changes only in the refresh step of a caller that holds
\* the lock and has found the cache stale.
C16_Frame ==
  [][/\ client' = client
     /\ sas_info' # sas_info =>
          \E t \in Callers :
            /\ pc[t] = "locked"
            /\ lock.holder = t
            /\ pc'[t] # "locked"
            /\ curr_time[t] > sas_info.expiresAt]_vars

\* A receive has refreshed the cache of a client.
C16_Witness ==
  /\ last.op = "receive"
  /\ last.regenerated
  /\ last.outcome.kind = "Ok"
  /\ sas_info.expiresAt >= StartTime + SAS_DURATION

\* C17: in complete, abandon and renew the credential step runs before the
\* address is validated: a call that fails with LocalMessage after finding
\* the cache stale has replaced the cached token and expiresAt, and one that
\* finds the cache still valid changes nothing.
C17_RefreshBeforeValidation ==
  [][\A t \in Callers :
       (/\ Returns(t)
        /\ last'.op \in LockOperations
        /\ last'.outcome.kind = "Err"
        /\ last'.outcome.err = "LocalMessage")
       => /\ curr_time[t] > sas_info.expiresAt =>
               /\ sas_info'.token # sas_info.token
               /\ sas_info'.expiresAt # sas_info.expiresAt
               /\ last'.regenerated
          /\ curr_time[t] <= sas_info.expiresAt =>
               /\ sas_info' = sas_info
               /\ client' = client]_vars

\* A renew has failed with LocalMessage and has refreshed the cache.
C17_Witness ==
  /\ last.op = "renew_message"
  /\ last.outcome.kind = "Err"
  /\ last.outcome.err = "LocalMessage"
  /\ last.regenerated

====
